---- MODULE Spec2Model ----
(***************************************************************************)
(* Model of the Quran recitation grader (src/main.py): the text            *)
(* normalizer, the phonetic lexicon, the edit distance, the letter         *)
(* comparator, the sequence aligner, the scorer and the grading handler.   *)
(*                                                                         *)
(* A Python str is a sequence of Unicode code points (naturals).  A Python *)
(* float is an exact rational <<numerator, denominator>> in lowest terms   *)
(* with a positive denominator; <<1, 0>> stands for a raised               *)
(* ZeroDivisionError.                                                      *)
(***************************************************************************)
EXTENDS Integers, Sequences, FiniteSets, TLC

VARIABLES
    pc,             \* position of the call being modelled
    text,           \* normalize_arabic_text: its argument
    normalized,     \* normalize_arabic_text(text)
    renormalized,   \* normalize_arabic_text(normalized)
    spoken,         \* compare_single_letter: its first argument
    target_letter,  \* compare_single_letter: its second argument
    call_args,      \* what it calls calculate_phonetic_similarity on, if it does
    recited,        \* compare_quranic_arabic: its first argument
    reference,      \* compare_quranic_arabic: its second argument
    similarity,     \* the float returned by the comparison (or the raised error)
    threshold,      \* config.PASS_THRESHOLD
    grade,          \* grade_recitation: round(similarity * 100, 2)
    is_passed,      \* grade_recitation: grade >= config.PASS_THRESHOLD
    model,          \* the global Whisper model: "None" or "loaded"
    request,        \* the request grade_recitation is handling
    response,       \* its response
    invoked,        \* what the handler called for that request
    average_similarity,    \* compare_quranic_arabic: its local of that name
    position,              \* the reference position i of its loop, plus one
    same_index_similarity, \* word_similarity of position i before line 297
    rescued_similarity,    \* word_similarity of position i after line 302
    string_a,       \* levenshtein_distance: three strings it is called on
    string_b,
    string_c,
    distances       \* the distances it returned for the pairs of them

vars == <<pc, text, normalized, renormalized, spoken, target_letter,
          call_args, recited,
          reference, similarity, threshold, grade, is_passed, model, request,
          response, invoked, average_similarity, position,
          same_index_similarity, rescued_similarity, string_a, string_b,
          string_c, distances>>

-----------------------------------------------------------------------------
(* Code points named by the source.                                        *)

FATHATAN == 1611        \* U+064B, first of the diacritic range
SUKUN == 1618           \* U+0652, last of the diacritic range
TATWEEL == 1600         \* U+0640
ALEF == 1575            \* U+0627
ALEF_MADDA == 1570      \* U+0622
ALEF_HAMZA_ABOVE == 1571 \* U+0623
ALEF_HAMZA_BELOW == 1573 \* U+0625
ALEF_WASLA == 1649      \* U+0671
YEH == 1610             \* U+064A
ALEF_MAKSURA == 1609    \* U+0649
TEH_MARBUTA == 1577     \* U+0629
TEH == 1578             \* U+062A
LAM == 1604             \* U+0644
HEH == 1607             \* U+0647
ALLAH_LIGATURE == 65010 \* U+FDF2
SALLALLAHOU == 65018    \* U+FDFA
JALLAJALALOUHOU == 65019 \* U+FDFB
ARABIC_FIRST == 1536    \* U+0600
ARABIC_LAST == 1791     \* U+06FF
SPACE == 32

\* The code points Python's \s and str.isspace() accept.
Whitespace ==
    {9, 10, 11, 12, 13, 28, 29, 30, 31, 32, 133, 160, 5760} \cup (8192..8202)
        \cup {8232, 8233, 8239, 8287, 12288}

-----------------------------------------------------------------------------
(* Strings.                                                                *)

\* re.sub(r'[class]', '', s): s without the code points of class.
RECURSIVE Remove(_, _)
Remove(s, class) ==
    IF s = <<>> THEN <<>>
    ELSE IF Head(s) \in class THEN Remove(Tail(s), class)
         ELSE <<Head(s)>> \o Remove(Tail(s), class)

\* re.sub(r'[^class]', '', s): s without the code points outside class.
RECURSIVE Keep(_, _)
Keep(s, class) ==
    IF s = <<>> THEN <<>>
    ELSE IF Head(s) \in class THEN <<Head(s)>> \o Keep(Tail(s), class)
         ELSE Keep(Tail(s), class)

\* re.sub(r'[class]', repl, s): every code point of s in class replaced by
\* the string repl.
RECURSIVE Substitute(_, _, _)
Substitute(s, class, repl) ==
    IF s = <<>> THEN <<>>
    ELSE (IF Head(s) \in class THEN repl ELSE <<Head(s)>>)
             \o Substitute(Tail(s), class, repl)

\* re.sub(r'\s+', ' ', s): every maximal run of whitespace becomes one space.
RECURSIVE CollapseSpaces(_)
CollapseSpaces(s) ==
    IF s = <<>> THEN <<>>
    ELSE IF Head(s) \in Whitespace
         THEN IF Len(s) > 1 /\ s[2] \in Whitespace
              THEN CollapseSpaces(Tail(s))
              ELSE <<SPACE>> \o CollapseSpaces(Tail(s))
         ELSE <<Head(s)>> \o CollapseSpaces(Tail(s))

RECURSIVE LStrip(_)
LStrip(s) ==
    IF s # <<>> /\ Head(s) \in Whitespace THEN LStrip(Tail(s)) ELSE s

RECURSIVE RStrip(_)
RStrip(s) ==
    IF s # <<>> /\ s[Len(s)] \in Whitespace
    THEN RStrip(SubSeq(s, 1, Len(s) - 1)) ELSE s

\* str.strip()
Strip(s) == RStrip(LStrip(s))

\* str.lower(): the cased code points of the model's alphabets are A-Z.
Lower(s) == [i \in 1..Len(s) |-> IF s[i] \in 65..90 THEN s[i] + 32 ELSE s[i]]

\* a in b, for Python strings.
IsSubstring(a, b) ==
    \E k \in 0..(Len(b) - Len(a)) : SubSeq(b, k + 1, k + Len(a)) = a

\* [w for w in s.split(' ') if w]
RECURSIVE SplitWords(_, _)
SplitWords(s, word) ==
    IF s = <<>> THEN (IF word = <<>> THEN <<>> ELSE <<word>>)
    ELSE IF Head(s) = SPACE
         THEN (IF word = <<>> THEN <<>> ELSE <<word>>) \o SplitWords(Tail(s), <<>>)
         ELSE SplitWords(Tail(s), Append(word, Head(s)))

Words(s) == SplitWords(s, <<>>)

-----------------------------------------------------------------------------
(* normalize_arabic_text                                                   *)

Diacritics == FATHATAN..SUKUN
ArabicBlock == ARABIC_FIRST..ARABIC_LAST

AlefForms == {ALEF_HAMZA_ABOVE, ALEF_HAMZA_BELOW, ALEF_MADDA, ALEF}
YehForms == {YEH, ALEF_MAKSURA}
TehForms == {TEH_MARBUTA, TEH}
AllahSpelled == <<ALEF, LAM, LAM, HEH>>

\* normalize_arabic_text with the spaces collapsed before, not after, the
\* characters outside the Arabic block are removed.
normalize_collapsing_first(t) ==
    LET t1 == Remove(t, Diacritics)
        t2 == Remove(t1, {TATWEEL})
        t3 == Substitute(t2, AlefForms, <<ALEF>>)
        t4 == Substitute(t3, YehForms, <<YEH>>)
        t5 == Substitute(t4, TehForms, <<TEH>>)
        t6 == Substitute(t5, {ALEF_WASLA}, <<ALEF>>)
        t7 == Substitute(t6, {ALLAH_LIGATURE}, AllahSpelled)
        t8 == Remove(t7, {SALLALLAHOU})
        t9 == Remove(t8, {JALLAJALALOUHOU})
        t10 == CollapseSpaces(t9)
        t11 == Keep(t10, ArabicBlock \cup Whitespace)
    IN  Lower(Strip(t11))

normalize_arabic_text(t) ==
    LET t1 == Remove(t, Diacritics)
        t2 == Remove(t1, {TATWEEL})
        t3 == Substitute(t2, AlefForms, <<ALEF>>)
        t4 == Substitute(t3, YehForms, <<YEH>>)
        t5 == Substitute(t4, TehForms, <<TEH>>)
        t6 == Substitute(t5, {ALEF_WASLA}, <<ALEF>>)
        t7 == Substitute(t6, {ALLAH_LIGATURE}, AllahSpelled)
        t8 == Remove(t7, {SALLALLAHOU})
        t9 == Remove(t8, {JALLAJALALOUHOU})
        t10 == Keep(t9, ArabicBlock \cup Whitespace)
        t11 == CollapseSpaces(t10)
    IN  Lower(Strip(t11))

\* is_single_arabic_letter
is_single_arabic_letter(t) ==
    LET n == normalize_arabic_text(t)
    IN  Len(n) = 1 /\ n[1] \in ArabicBlock

-----------------------------------------------------------------------------
(* Floats, as exact rationals.  The comparisons of the source against 0.3,  *)
(* 0.6, 0.7, 0.8 and 1.2 and against one another are taken on the exact     *)
(* values.  The doubles of the source differ from them by rounding, which   *)
(* decides a comparison only at an exact tie: (1 - 4/5) + 0.3 is            *)
(* 0.49999999999999994 in doubles, below an alt_similarity of 0.5 that the  *)
(* exact 1/2 equals.                                                        *)

RECURSIVE GCD(_, _)
GCD(a, b) == IF b = 0 THEN a ELSE GCD(b, a % b)

Abs(x) == IF x < 0 THEN -x ELSE x

\* What a division by zero raises.
ZeroDivisionError == <<1, 0>>

Raised(x) == x[2] = 0

\* n / d
Rat(n, d) ==
    IF d = 0 THEN ZeroDivisionError
    ELSE LET g == GCD(Abs(n), Abs(d))
             sign == IF d < 0 THEN -1 ELSE 1
         IN  <<(sign * n) \div g, (sign * d) \div g>>

RAdd(x, y) == Rat(x[1] * y[2] + y[1] * x[2], x[2] * y[2])
RSub(x, y) == Rat(x[1] * y[2] - y[1] * x[2], x[2] * y[2])
RMul(x, y) == Rat(x[1] * y[1], x[2] * y[2])
RDiv(x, y) == Rat(x[1] * y[2], x[2] * y[1])
RLess(x, y) == x[1] * y[2] < y[1] * x[2]
RLeq(x, y) == x[1] * y[2] <= y[1] * x[2]
RMin(x, y) == IF RLess(y, x) THEN y ELSE x
RMax(x, y) == IF RLess(x, y) THEN y ELSE x

Zero == <<0, 1>>
One == <<1, 1>>

-----------------------------------------------------------------------------
(* levenshtein_distance: the table d, one row at a time.                    *)

Min3(a, b, c) == IF a <= b /\ a <= c THEN a ELSE IF b <= c THEN b ELSE c

\* Row i of d from row i - 1 (prev): row[k] is d[i][k-1], prev[k] is
\* d[i-1][k-1], c is s1[i-1] of the source.
RECURSIVE LevRow(_, _, _, _)
LevRow(prev, c, s2, row) ==
    IF Len(row) = Len(s2) + 1 THEN row
    ELSE LET j == Len(row)
             cost == IF c = s2[j] THEN 0 ELSE 1
         IN  LevRow(prev, c, s2,
                    Append(row, Min3(prev[j + 1] + 1, row[j] + 1, prev[j] + cost)))

RECURSIVE LevRows(_, _, _, _)
LevRows(s1, s2, i, prev) ==
    IF i > Len(s1) THEN prev
    ELSE LevRows(s1, s2, i + 1, LevRow(prev, s1[i], s2, <<i>>))

\* levenshtein_distance with row 0 of d left at zeros.
levenshtein_distance_zero_first_row(s1, s2) ==
    LevRows(s1, s2, 1, [j \in 1..(Len(s2) + 1) |-> 0])[Len(s2) + 1]

levenshtein_distance(s1, s2) ==
    LevRows(s1, s2, 1, [j \in 1..(Len(s2) + 1) |-> j - 1])[Len(s2) + 1]

compare_words(word1, word2) ==
    LET max_length == IF Len(word1) >= Len(word2) THEN Len(word1) ELSE Len(word2)
    IN  IF max_length = 0 THEN One
        ELSE RSub(One, RDiv(<<levenshtein_distance(word1, word2), 1>>,
                            <<max_length, 1>>))

-----------------------------------------------------------------------------
(* get_arabic_letter_phonetics: the letter (a one-letter string) mapped to  *)
(* its alternative spellings, Arabic letter names and Latin                 *)
(* transliterations, in the order of the source.                            *)

get_arabic_letter_phonetics ==
    <<1575>> :> <<<<1575, 1604, 1601>>, <<1571, 1604, 1601>>, <<1575, 1604, 1610, 1601>>, <<1575, 1604, 1740, 1601>>, <<97, 108, 105, 102>>, <<97, 108, 101, 102>>>> @@
    <<1576>> :> <<<<1576, 1575, 1569>>, <<1576, 1570, 1569>>, <<1576, 1575>>, <<1576, 1575, 1574>>, <<98, 97, 97>>, <<98, 97>>>> @@
    <<1578>> :> <<<<1578, 1575, 1569>>, <<1578, 1570, 1569>>, <<1578, 1575>>, <<1578, 1575, 1574>>, <<116, 97, 97>>, <<116, 97>>>> @@
    <<1579>> :> <<<<1579, 1575, 1569>>, <<1579, 1570, 1569>>, <<1579, 1575>>, <<1579, 1575, 1574>>, <<116, 104, 97, 97>>, <<116, 104, 97>>>> @@
    <<1580>> :> <<<<1580, 1610, 1605>>, <<1580, 1740, 1605>>, <<1580, 1605>>, <<106, 105, 109>>, <<106, 101, 101, 109>>>> @@
    <<1581>> :> <<<<1581, 1575, 1569>>, <<1581, 1570, 1569>>, <<1581, 1575>>, <<1581, 1575, 1574>>, <<104, 97, 97>>, <<104, 97>>>> @@
    <<1582>> :> <<<<1582, 1575, 1569>>, <<1582, 1570, 1569>>, <<1582, 1575>>, <<1582, 1575, 1574>>, <<107, 104, 97, 97>>, <<107, 104, 97>>>> @@
    <<1583>> :> <<<<1583, 1575, 1604>>, <<1583, 1570, 1604>>, <<1583, 1604>>, <<100, 97, 108>>, <<100, 97, 97, 108>>>> @@
    <<1584>> :> <<<<1584, 1575, 1604>>, <<1584, 1570, 1604>>, <<1584, 1604>>, <<122, 97, 108>>, <<116, 104, 97, 97, 108>>>> @@
    <<1585>> :> <<<<1585, 1575, 1569>>, <<1585, 1570, 1569>>, <<1585, 1575>>, <<1585, 1575, 1574>>, <<114, 97, 97>>, <<114, 97>>>> @@
    <<1586>> :> <<<<1586, 1575, 1610>>, <<1586, 1575, 1740>>, <<1586, 1610>>, <<1586, 1740>>, <<122, 97, 121>>, <<122, 97, 97, 121>>>> @@
    <<1587>> :> <<<<1587, 1610, 1606>>, <<1587, 1740, 1606>>, <<1587, 1606>>, <<115, 101, 101, 110>>, <<115, 105, 110>>>> @@
    <<1588>> :> <<<<1588, 1610, 1606>>, <<1588, 1740, 1606>>, <<1588, 1606>>, <<115, 104, 101, 101, 110>>, <<115, 104, 105, 110>>>> @@
    <<1589>> :> <<<<1589, 1575, 1583>>, <<1589, 1570, 1583>>, <<1589, 1583>>, <<115, 97, 97, 100>>, <<115, 97, 100>>>> @@
    <<1590>> :> <<<<1590, 1575, 1583>>, <<1590, 1570, 1583>>, <<1590, 1583>>, <<100, 97, 97, 100>>, <<100, 104, 97, 100>>>> @@
    <<1591>> :> <<<<1591, 1575, 1569>>, <<1591, 1570, 1569>>, <<1591, 1575>>, <<1591, 1575, 1574>>, <<116, 97, 97>>, <<116, 97>>>> @@
    <<1592>> :> <<<<1592, 1575, 1569>>, <<1592, 1570, 1569>>, <<1592, 1575>>, <<1592, 1575, 1574>>, <<122, 97, 97>>, <<122, 97>>>> @@
    <<1593>> :> <<<<1593, 1610, 1606>>, <<1593, 1740, 1606>>, <<1593, 1606>>, <<97, 121, 110>>, <<97, 105, 110>>>> @@
    <<1594>> :> <<<<1594, 1610, 1606>>, <<1594, 1740, 1606>>, <<1594, 1606>>, <<103, 104, 97, 121, 110>>, <<103, 104, 97, 105, 110>>>> @@
    <<1601>> :> <<<<1601, 1575, 1569>>, <<1601, 1570, 1569>>, <<1601, 1575>>, <<1601, 1575, 1574>>, <<102, 97, 97>>, <<102, 97>>>> @@
    <<1602>> :> <<<<1602, 1575, 1601>>, <<1602, 1570, 1601>>, <<1602, 1601>>, <<113, 97, 97, 102>>, <<113, 97, 102>>>> @@
    <<1603>> :> <<<<1603, 1575, 1601>>, <<1603, 1570, 1601>>, <<1603, 1601>>, <<107, 97, 97, 102>>, <<107, 97, 102>>>> @@
    <<1604>> :> <<<<1604, 1575, 1605>>, <<1604, 1570, 1605>>, <<1604, 1605>>, <<108, 97, 97, 109>>, <<108, 97, 109>>>> @@
    <<1605>> :> <<<<1605, 1610, 1605>>, <<1605, 1740, 1605>>, <<1605, 1605>>, <<109, 101, 101, 109>>, <<109, 105, 109>>>> @@
    <<1606>> :> <<<<1606, 1608, 1606>>, <<1606, 1608, 1606>>, <<1606, 1606>>, <<110, 111, 111, 110>>, <<110, 117, 110>>>> @@
    <<1607>> :> <<<<1607, 1575, 1569>>, <<1607, 1570, 1569>>, <<1607, 1575>>, <<1607, 1575, 1574>>, <<104, 97, 97>>, <<104, 97>>>> @@
    <<1608>> :> <<<<1608, 1575, 1608>>, <<1608, 1570, 1608>>, <<1608, 1608>>, <<119, 97, 97, 119>>, <<119, 97, 119>>>> @@
    <<1610>> :> <<<<1610, 1575, 1569>>, <<1740, 1575, 1569>>, <<1740, 1570, 1569>>, <<1610, 1575, 1574>>, <<1740, 1575, 1574>>, <<121, 97, 97>>, <<121, 97>>>> @@
    <<1609>> :> <<<<1610, 1575, 1569>>, <<1740, 97, 1569>>, <<1740, 1570, 1569>>, <<1610, 1575, 1574>>, <<1740, 1575, 1574>>, <<121, 97, 97>>, <<121, 97>>>>

-----------------------------------------------------------------------------
(* The letter comparator.                                                   *)

\* The loop of calculate_phonetic_similarity over alternatives[k..].
RECURSIVE MaxSimilarity(_, _, _, _)
MaxSimilarity(spk, alternatives, k, max_similarity) ==
    IF k > Len(alternatives) THEN max_similarity
    ELSE MaxSimilarity(spk, alternatives, k + 1,
             RMax(max_similarity,
                  compare_words(spk, normalize_arabic_text(alternatives[k]))))

calculate_phonetic_similarity(spk, target, alternatives) ==
    LET max_similarity == MaxSimilarity(spk, alternatives, 1, Zero)
    IN  IF RLess(max_similarity, <<3, 10>>) /\ Len(spk) <= 3
           /\ IsSubstring(target, spk)
        THEN <<3, 5>>
        ELSE RMul(max_similarity, <<4, 5>>)

\* What the loop of compare_single_letter over alternatives[k..] returns;
\* NoReturn when it falls through.
NoReturn == <<>>

RECURSIVE AlternativesLoop(_, _, _)
AlternativesLoop(normalized_spoken, alternatives, k) ==
    IF k > Len(alternatives) THEN NoReturn
    ELSE LET normalized_alt == normalize_arabic_text(alternatives[k])
             sim == compare_words(normalized_spoken, normalized_alt)
         IN  IF normalized_spoken = normalized_alt THEN <<19, 20>>
             ELSE IF (IsSubstring(normalized_alt, normalized_spoken)
                        \/ IsSubstring(normalized_spoken, normalized_alt))
                     /\ RLess(<<7, 10>>, sim)
                  THEN RMul(sim, <<9, 10>>)
                  ELSE AlternativesLoop(normalized_spoken, alternatives, k + 1)

\* compare_single_letter without its first rule (equal normalizations).
compare_single_letter_no_equality(spk, tgt) ==
    LET normalized_spoken == normalize_arabic_text(spk)
        normalized_target == normalize_arabic_text(tgt)
        phonetics == get_arabic_letter_phonetics
    IN  IF normalized_target \in DOMAIN phonetics
        THEN LET alternatives == phonetics[normalized_target]
                 early == AlternativesLoop(normalized_spoken, alternatives, 1)
             IN  IF early # NoReturn THEN early
                 ELSE IF IsSubstring(normalized_target, normalized_spoken)
                      THEN <<4, 5>>
                      ELSE calculate_phonetic_similarity(
                               normalized_spoken, normalized_target, alternatives)
        ELSE Zero

\* compare_single_letter with the containment rule (0.8) outside the test
\* that the target is in the lexicon.
compare_single_letter_containment_outside(spk, tgt) ==
    LET normalized_spoken == normalize_arabic_text(spk)
        normalized_target == normalize_arabic_text(tgt)
        phonetics == get_arabic_letter_phonetics
        early == IF normalized_target \in DOMAIN phonetics
                 THEN AlternativesLoop(normalized_spoken,
                                       phonetics[normalized_target], 1)
                 ELSE NoReturn
    IN  IF normalized_spoken = normalized_target THEN One
        ELSE IF early # NoReturn THEN early
        ELSE IF IsSubstring(normalized_target, normalized_spoken) THEN <<4, 5>>
        ELSE IF normalized_target \in DOMAIN phonetics
             THEN calculate_phonetic_similarity(
                      normalized_spoken, normalized_target,
                      phonetics[normalized_target])
             ELSE Zero

\* letter_rules without the rule of line 247 (the target inside the spoken
\* text scores 0.8).
letter_rules_without_containment(normalized_spoken, normalized_target) ==
    LET phonetics == get_arabic_letter_phonetics
    IN  IF normalized_spoken = normalized_target THEN One
        ELSE IF normalized_target \in DOMAIN phonetics
             THEN AlternativesLoop(normalized_spoken,
                                   phonetics[normalized_target], 1)
             ELSE Zero

\* Lines 229-252 but line 250: what compare_single_letter returns without
\* calling calculate_phonetic_similarity; NoReturn when it goes on to call it.
letter_rules(normalized_spoken, normalized_target) ==
    LET phonetics == get_arabic_letter_phonetics
    IN  IF normalized_spoken = normalized_target THEN One
        ELSE IF normalized_target \in DOMAIN phonetics
             THEN LET alternatives == phonetics[normalized_target]
                      early == AlternativesLoop(normalized_spoken, alternatives, 1)
                  IN  IF early # NoReturn THEN early
                      ELSE IF IsSubstring(normalized_target, normalized_spoken)
                           THEN <<4, 5>>
                           ELSE NoReturn
             ELSE Zero

\* Line 250 where the rules before it (early) returned nothing.
phonetic_fallback(early, normalized_spoken, normalized_target) ==
    IF early # NoReturn THEN early
    ELSE calculate_phonetic_similarity(
             normalized_spoken, normalized_target,
             get_arabic_letter_phonetics[normalized_target])

\* The arguments of the call on line 250; NoCall when it is not reached.
NoCall == <<>>

fallback_call(spk, tgt) ==
    LET normalized_spoken == normalize_arabic_text(spk)
        normalized_target == normalize_arabic_text(tgt)
    IN  IF letter_rules(normalized_spoken, normalized_target) = NoReturn
        THEN [spoken |-> normalized_spoken, target |-> normalized_target,
              alternatives |-> get_arabic_letter_phonetics[normalized_target]]
        ELSE NoCall

compare_single_letter(spk, tgt) ==
    phonetic_fallback(
        letter_rules(normalize_arabic_text(spk), normalize_arabic_text(tgt)),
        normalize_arabic_text(spk), normalize_arabic_text(tgt))

-----------------------------------------------------------------------------
(* The sequence aligner.  Positions are those of the source plus one.       *)

\* The same-index similarity of reference position i (lines 275-294).
position_similarity(recited_words, reference_words, i) ==
    IF i <= Len(recited_words)
    THEN IF is_single_arabic_letter(reference_words[i])
         THEN compare_single_letter(recited_words[i], reference_words[i])
         ELSE IF recited_words[i] = reference_words[i] THEN One
              ELSE LET base_similarity ==
                           compare_words(recited_words[i], reference_words[i])
                       containment_bonus ==
                           IF IsSubstring(reference_words[i], recited_words[i])
                              \/ IsSubstring(recited_words[i], reference_words[i])
                           THEN <<3, 10>> ELSE Zero
                   IN  RMin(One, RAdd(base_similarity, containment_bonus))
    ELSE Zero

\* The scan of the recited words j.. for reference position i (lines 298-302).
RECURSIVE rescue_scan(_, _, _, _, _)
rescue_scan(word_similarity, recited_words, reference_word, i, j) ==
    IF j > Len(recited_words) THEN word_similarity
    ELSE LET alt_similarity == compare_words(recited_words[j], reference_word)
         IN  rescue_scan(
                 IF j # i /\ RLess(word_similarity, alt_similarity)
                 THEN RMul(alt_similarity, <<4, 5>>) ELSE word_similarity,
                 recited_words, reference_word, i, j + 1)

\* Positional rescue (lines 297-302).
positional_rescue(word_similarity, recited_words, reference_word, i) ==
    IF RLess(word_similarity, <<3, 5>>)
    THEN rescue_scan(word_similarity, recited_words, reference_word, i, 1)
    ELSE word_similarity

\* What reference position i adds to total_similarity.
word_similarity_at(recited_words, reference_words, i) ==
    positional_rescue(position_similarity(recited_words, reference_words, i),
                      recited_words, reference_words[i], i)

\* total_similarity after the positions i.. (lines 274-304).
RECURSIVE total_similarity_from(_, _, _)
total_similarity_from(recited_words, reference_words, i) ==
    IF i > Len(reference_words) THEN Zero
    ELSE RAdd(word_similarity_at(recited_words, reference_words, i),
              total_similarity_from(recited_words, reference_words, i + 1))

\* Lines 271-307: average_similarity of non-empty word lists.
average_word_similarity(recited_words, reference_words) ==
    RDiv(total_similarity_from(recited_words, reference_words, 1),
         <<Len(reference_words), 1>>)

\* Lines 310-314 with the range closed: the ratios 0.8 and 1.2 penalized.
length_penalty_inclusive(n_recited, n_reference) ==
    LET length_ratio == RDiv(<<n_recited, 1>>, <<n_reference, 1>>)
    IN  IF Raised(length_ratio) THEN ZeroDivisionError
        ELSE IF RLeq(length_ratio, <<4, 5>>) \/ RLeq(<<6, 5>>, length_ratio)
             THEN <<9, 10>> ELSE One

\* Lines 310-314.
length_penalty(n_recited, n_reference) ==
    LET length_ratio == RDiv(<<n_recited, 1>>, <<n_reference, 1>>)
    IN  IF Raised(length_ratio) THEN ZeroDivisionError
        ELSE IF RLess(length_ratio, <<4, 5>>) \/ RLess(<<6, 5>>, length_ratio)
             THEN <<9, 10>> ELSE One

\* Lines 309-316: the score from the average and the two word counts.
final_similarity(average, n_recited, n_reference) ==
    IF Raised(average) THEN ZeroDivisionError
    ELSE RMul(average, length_penalty(n_recited, n_reference))

\* Lines 271-316: the score of non-empty word lists.
align_words(recited_words, reference_words) ==
    final_similarity(average_word_similarity(recited_words, reference_words),
                     Len(recited_words), Len(reference_words))

\* compare_quranic_arabic without the test for an empty reference.
compare_quranic_arabic_unguarded(rec, ref) ==
    LET nrecited == normalize_arabic_text(rec)
        nreference == normalize_arabic_text(ref)
        recited_words == Words(nrecited)
        reference_words == Words(nreference)
    IN  IF is_single_arabic_letter(nreference)
        THEN compare_single_letter(nrecited, nreference)
        ELSE IF recited_words = <<>> THEN Zero
             ELSE align_words(recited_words, reference_words)

\* compare_quranic_arabic scoring an empty recitation of an empty reference
\* as a match.
compare_quranic_arabic_empty_match(rec, ref) ==
    LET nrecited == normalize_arabic_text(rec)
        nreference == normalize_arabic_text(ref)
        recited_words == Words(nrecited)
        reference_words == Words(nreference)
    IN  IF is_single_arabic_letter(nreference)
        THEN compare_single_letter(nrecited, nreference)
        ELSE IF reference_words = <<>>
             THEN (IF recited_words = <<>> THEN One ELSE Zero)
             ELSE IF recited_words = <<>> THEN Zero
                  ELSE align_words(recited_words, reference_words)

compare_quranic_arabic(rec, ref) ==
    LET nrecited == normalize_arabic_text(rec)
        nreference == normalize_arabic_text(ref)
        recited_words == Words(nrecited)
        reference_words == Words(nreference)
    IN  IF is_single_arabic_letter(nreference)
        THEN compare_single_letter(nrecited, nreference)
        ELSE IF reference_words = <<>> THEN Zero
             ELSE IF recited_words = <<>> THEN Zero
                  ELSE align_words(recited_words, reference_words)

-----------------------------------------------------------------------------
(* The scorer and the grading handler.                                      *)

\* round(x, 2) for x >= 0: the nearest multiple of 1/100, a tie going to the
\* even one.
round2(x) ==
    LET n == 100 * x[1]
        q == n \div x[2]
        r == n % x[2]
    IN  IF 2 * r > x[2] \/ (2 * r = x[2] /\ q % 2 = 1)
        THEN Rat(q + 1, 100) ELSE Rat(q, 100)

\* The verdict taken on the raw similarity, not on the rounded grade.
score_on_raw_similarity(sim, pass_threshold) ==
    LET g == round2(RMul(sim, <<100, 1>>))
    IN  [grade |-> g,
         is_passed |-> RLeq(pass_threshold, RMul(sim, <<100, 1>>))]

\* Lines 389-390: the grade and the verdict for a similarity.
score(sim, pass_threshold) ==
    LET g == round2(RMul(sim, <<100, 1>>))
    IN  [grade |-> g, is_passed |-> RLeq(pass_threshold, g)]

\* Config.PASS_THRESHOLD with no PASS_THRESHOLD in the environment.
PASS_THRESHOLD == <<70, 1>>

\* Config.MAX_FILE_SIZE with no MAX_FILE_SIZE in the environment: 30 MB.
MAX_FILE_SIZE == 30 * 1024 * 1024

\* Python's None, where a string is expected, and where an int is.
None == <<-1>>
SizeNone == -1

\* "audio/"
AudioPrefix == <<97, 117, 100, 105, 111, 47>>

\* s.startswith(prefix)
StartsWith(s, prefix) ==
    Len(s) >= Len(prefix) /\ SubSeq(s, 1, Len(prefix)) = prefix

\* validate testing the reference for emptiness only, not after strip().
validate_without_strip(req) ==
    IF req.compared_letters = <<>>
    THEN [status |-> 400, detail |-> "reference required"]
    ELSE IF req.filename = None \/ req.filename = <<>>
    THEN [status |-> 400, detail |-> "no file"]
    ELSE IF req.size # SizeNone /\ req.size # 0 /\ req.size > MAX_FILE_SIZE
    THEN [status |-> 400, detail |-> "file too large"]
    ELSE IF req.content_type = None \/ req.content_type = <<>>
            \/ ~StartsWith(req.content_type, AudioPrefix)
    THEN [status |-> 400, detail |-> "invalid file type"]
    ELSE [status |-> 0, detail |-> ""]

\* Lines 341-363: the status the validation raises, 0 when it passes.
validate(req) ==
    IF req.compared_letters = <<>> \/ Strip(req.compared_letters) = <<>>
    THEN [status |-> 400, detail |-> "reference required"]
    ELSE IF req.filename = None \/ req.filename = <<>>
    THEN [status |-> 400, detail |-> "no file"]
    ELSE IF req.size # SizeNone /\ req.size # 0 /\ req.size > MAX_FILE_SIZE
    THEN [status |-> 400, detail |-> "file too large"]
    ELSE IF req.content_type = None \/ req.content_type = <<>>
            \/ ~StartsWith(req.content_type, AudioPrefix)
    THEN [status |-> 400, detail |-> "invalid file type"]
    ELSE [status |-> 0, detail |-> ""]

ServerError == [status |-> 500, detail |-> "error"]

\* Lines 396-403: the GradingResponse, or the error its validation raises.
grading_response(req, sim, sc) ==
    IF RLess(sim, Zero) \/ RLess(One, sim) \/ RLess(sc.grade, Zero)
       \/ RLess(<<100, 1>>, sc.grade)
    THEN ServerError
    ELSE [status |-> 200,
          transcribed_text |-> req.transcription,
          grade |-> sc.grade,
          is_passed |-> sc.is_passed,
          reference_text |-> req.compared_letters,
          similarity_score |-> sim]

\* Lines 387-412: the grading of a transcription, given what
\* compare_quranic_arabic returned or raised.
grading(req, sim) ==
    IF Raised(sim) THEN ServerError
    ELSE grading_response(req, sim, score(sim, PASS_THRESHOLD))

\* Lines 365-412: the handler once the validation has passed.  The
\* transcription is what model.transcribe yields, None when it raises.
process(req, whisper) ==
    IF whisper = "None"
    THEN [response |-> [status |-> 500, detail |-> "model not available"],
          invoked |-> {}]
    ELSE IF req.audio_bytes = 0
    THEN [response |-> [status |-> 400, detail |-> "empty audio"],
          invoked |-> {"read"}]
    ELSE IF req.transcription = None
    THEN [response |-> ServerError, invoked |-> {"read", "transcribe"}]
    ELSE [response |->
              grading(req, compare_quranic_arabic(req.transcription,
                                                  req.compared_letters)),
          invoked |-> {"read", "transcribe", "compare_quranic_arabic"}]

\* The handler's outcome for a validation verdict v.
outcome(v, req, whisper) ==
    IF v.status # 0 THEN [response |-> v, invoked |-> {}]
    ELSE process(req, whisper)

\* grade_recitation, lines 322-419.
handle(req, whisper) == outcome(validate(req), req, whisper)

-----------------------------------------------------------------------------
(* Inputs.                                                                  *)

BEH == 1576             \* U+0628, a letter of the lexicon
HAMZA == 1569           \* U+0621, a letter the lexicon has no entry for
FATHA == 1614           \* U+064E, a diacritic of the range the source removes
SUPERSCRIPT_ALEF == 1648 \* U+0670, the dagger alef of Quranic text
LATIN_A == 97
LATIN_CAPITAL_A == 65
TAB == 9

\* The strings over alphabet of length at most n.
RECURSIVE StringsUpTo(_, _)
StringsUpTo(alphabet, n) ==
    IF n = 0 THEN {<<>>}
    ELSE LET shorter == StringsUpTo(alphabet, n - 1)
         IN  shorter \cup {Append(t, c) : t \in shorter, c \in alphabet}

\* ' '.join(ws)
RECURSIVE Join(_)
Join(ws) ==
    IF ws = <<>> THEN <<>>
    ELSE IF Len(ws) = 1 THEN ws[1]
         ELSE ws[1] \o <<SPACE>> \o Join(Tail(ws))

\* The texts of at most n words of wordset, joined by single spaces.
TextsUpTo(wordset, n) == {Join(ws) : ws \in StringsUpTo(wordset, n)}

MaxTextLen == 3
MaxSpacedLen == 5
MaxSpokenLen == 2
MaxRecitedWords == 3
MaxReferenceWords == 2
ScoreDen == 60000
MaxDistanceLen == 3
MaxAlignRecited == 6
MaxAlignReference == 5
MaxRescueRecited == 3
MaxRescueReference == 2

\* One code point of every class normalize_arabic_text tells apart.
NormalizeAlphabet ==
    {BEH, FATHA, SUPERSCRIPT_ALEF, TATWEEL, ALEF_HAMZA_ABOVE, ALEF_MAKSURA,
     TEH_MARBUTA, ALEF_WASLA, ALLAH_LIGATURE, SALLALLAHOU, LATIN_A,
     LATIN_CAPITAL_A, SPACE, TAB}

NormalizeInputs ==
    StringsUpTo(NormalizeAlphabet, MaxTextLen)
        \cup StringsUpTo({BEH, SPACE, FATHA, LATIN_A}, MaxSpacedLen)

\* Every alternative spelling of the lexicon.
AllAlternatives ==
    UNION {{get_arabic_letter_phonetics[k][i] :
                i \in 1..Len(get_arabic_letter_phonetics[k])} :
           k \in DOMAIN get_arabic_letter_phonetics}

\* The last: three letters, the third a letter of the lexicon, unlike every
\* spelling of its name.
SpokenInputs ==
    AllAlternatives
        \cup StringsUpTo({BEH, ALEF, HAMZA, LATIN_A, FATHA}, MaxSpokenLen)
        \cup {<<HAMZA, HAMZA, BEH>>}

TargetInputs ==
    DOMAIN get_arabic_letter_phonetics
        \cup {<<>>, <<HAMZA>>, <<LATIN_A>>, <<TEH_MARBUTA>>, <<1740>>,
              <<BEH, ALEF>>, <<HAMZA, FATHA>>}

\* Words: a letter of the lexicon, the name of that letter, a letter outside
\* the lexicon, a word that normalizes to nothing.
CompareWords == {<<BEH>>, <<BEH, ALEF, HAMZA>>, <<HAMZA>>, <<LATIN_A>>}

\* A vowelled letter, a lone vowel mark, a shorter spelling of the name, two
\* spellings of the name, two letters apart by a tab and a space.
ExtraTexts ==
    {<<BEH, FATHA>>, <<FATHA>>, <<BEH, ALEF>>,
     <<BEH, ALEF, SPACE, BEH, ALEF, HAMZA>>, <<BEH, TAB, SPACE, HAMZA>>}

RecitedInputs == TextsUpTo(CompareWords, MaxRecitedWords) \cup ExtraTexts

ReferenceInputs == TextsUpTo(CompareWords, MaxReferenceWords) \cup ExtraTexts

Thresholds == {<<0, 1>>, PASS_THRESHOLD, <<6667, 100>>, <<100, 1>>}

\* Recitations of two words with no letter in common, references that
\* repeat the first of them.
AlignWords == {<<BEH, ALEF>>, <<HAMZA, HAMZA>>}

AlignRecitedInputs == TextsUpTo(AlignWords, MaxAlignRecited)

AlignReferenceInputs == TextsUpTo({<<BEH, ALEF>>}, MaxAlignReference)

\* A word, and three words at edit distances 2, 3 and 2 from it: of its
\* length, longer and shorter.
RescueWords ==
    {<<BEH, BEH, BEH>>, <<BEH, ALEF>>, <<BEH, BEH, ALEF, ALEF, ALEF>>, <<BEH>>}

RescueRecitedInputs == TextsUpTo(RescueWords, MaxRescueRecited)

RescueReferenceInputs == TextsUpTo(RescueWords, MaxRescueReference)

\* The strings of two letters levenshtein_distance is called on.
DistanceInputs == StringsUpTo({BEH, ALEF}, MaxDistanceLen)

-----------------------------------------------------------------------------
(* The calls.                                                               *)

NoRequest == [path |-> "", compared_letters |-> <<>>, filename |-> None, size |-> SizeNone,
              content_type |-> None, audio_bytes |-> 0, transcription |-> None]
NoResponse == [status |-> 0, detail |-> ""]
NoDistances == <<>>
Unset == <<>>

NormalizeIdle == text = <<>> /\ normalized = <<>> /\ renormalized = <<>>
LetterIdle == spoken = <<>> /\ target_letter = <<>> /\ call_args = NoCall
CompareIdle == recited = <<>> /\ reference = <<>>
ScoreIdle == similarity = Zero /\ threshold = PASS_THRESHOLD /\ grade = Zero
                /\ is_passed = FALSE
ServiceIdle == model = "None" /\ request = NoRequest /\ response = NoResponse
                  /\ invoked = {}
AlignIdle == average_similarity = Unset /\ position = 0
                /\ same_index_similarity = Unset /\ rescued_similarity = Unset
LevenshteinIdle == string_a = <<>> /\ string_b = <<>> /\ string_c = <<>>
                      /\ distances = NoDistances

normalizeVars == <<text, normalized, renormalized>>
letterVars == <<spoken, target_letter, call_args>>
compareVars == <<recited, reference>>
scoreVars == <<similarity, threshold, grade, is_passed>>
serviceVars == <<model, request, response, invoked>>
alignVars == <<average_similarity, position, same_index_similarity,
               rescued_similarity>>
levenshteinVars == <<string_a, string_b, string_c, distances>>

\* normalize(x), then normalize(normalize(x)).
InitNormalize ==
    /\ pc = "call"
    /\ text \in NormalizeInputs
    /\ normalized = <<>> /\ renormalized = <<>>
    /\ LetterIdle /\ CompareIdle /\ ScoreIdle /\ ServiceIdle
    /\ LevenshteinIdle /\ AlignIdle

Normalize ==
    /\ pc = "call"
    /\ normalized' = normalize_arabic_text(text)
    /\ pc' = "normalized"
    /\ UNCHANGED <<levenshteinVars, alignVars, text, renormalized, letterVars,
                   compareVars, scoreVars, serviceVars>>

Renormalize ==
    /\ pc = "normalized"
    /\ renormalized' = normalize_arabic_text(normalized)
    /\ pc' = "renormalized"
    /\ UNCHANGED <<levenshteinVars, alignVars, text, normalized, letterVars,
                   compareVars, scoreVars, serviceVars>>

NextNormalize == Normalize \/ Renormalize

SpecNormalize == InitNormalize /\ [][NextNormalize]_vars

\* compare_single_letter(spoken, target_letter)
InitLetter ==
    /\ pc = "call"
    /\ spoken \in SpokenInputs
    /\ target_letter \in TargetInputs
    /\ call_args = NoCall
    /\ NormalizeIdle /\ CompareIdle /\ ScoreIdle /\ ServiceIdle
    /\ LevenshteinIdle /\ AlignIdle

CompareSingleLetter ==
    /\ pc = "call"
    /\ similarity' = compare_single_letter(spoken, target_letter)
    /\ call_args' = fallback_call(spoken, target_letter)
    /\ pc' = "returned"
    /\ UNCHANGED <<levenshteinVars, alignVars, normalizeVars, spoken,
                   target_letter, compareVars, threshold, grade, is_passed,
                   serviceVars>>

NextLetter == CompareSingleLetter

SpecLetter == InitLetter /\ [][NextLetter]_vars

\* compare_quranic_arabic(recited, reference), then lines 389-390.
InitCompare ==
    /\ pc = "call"
    /\ recited \in RecitedInputs
    /\ reference \in ReferenceInputs
    /\ NormalizeIdle /\ LetterIdle /\ ScoreIdle /\ ServiceIdle
    /\ LevenshteinIdle /\ AlignIdle

CompareQuranicArabic ==
    /\ pc = "call"
    /\ similarity' = compare_quranic_arabic(recited, reference)
    /\ pc' = IF Raised(similarity') THEN "raised" ELSE "returned"
    /\ UNCHANGED <<levenshteinVars, alignVars, normalizeVars, letterVars,
                   compareVars, threshold, grade, is_passed, serviceVars>>

Grade ==
    /\ pc = "returned"
    /\ \E sc \in {score(similarity, threshold)} :
           grade' = sc.grade /\ is_passed' = sc.is_passed
    /\ pc' = "graded"
    /\ UNCHANGED <<levenshteinVars, alignVars, normalizeVars, letterVars,
                   compareVars, similarity, threshold, serviceVars>>

NextCompare == CompareQuranicArabic \/ Grade

SpecCompare == InitCompare /\ [][NextCompare]_vars

\* The scorer alone, for any similarity and threshold.
InitScore ==
    /\ pc = "returned"
    /\ similarity \in {Rat(k, ScoreDen) : k \in 0..ScoreDen}
    /\ threshold \in Thresholds
    /\ grade = Zero /\ is_passed = FALSE
    /\ NormalizeIdle /\ LetterIdle /\ CompareIdle /\ ServiceIdle
    /\ LevenshteinIdle /\ AlignIdle

SpecScore == InitScore /\ [][Grade]_vars

\* compare_quranic_arabic(recited, reference) in two steps: to the average
\* (line 307), then to the return (line 316).
InitAlign ==
    /\ pc = "call"
    /\ recited \in AlignRecitedInputs
    /\ reference \in AlignReferenceInputs
    /\ NormalizeIdle /\ LetterIdle /\ ScoreIdle /\ ServiceIdle
    /\ LevenshteinIdle /\ AlignIdle

\* Lines 256-269 return before the loop.
ReturnsBeforeLoop(rec, ref) ==
    \/ is_single_arabic_letter(normalize_arabic_text(ref))
    \/ Words(normalize_arabic_text(ref)) = <<>>
    \/ Words(normalize_arabic_text(rec)) = <<>>

ReturnEarly ==
    /\ pc = "call"
    /\ ReturnsBeforeLoop(recited, reference)
    /\ similarity' = compare_quranic_arabic(recited, reference)
    /\ pc' = "returned"
    /\ UNCHANGED <<levenshteinVars, alignVars, normalizeVars, letterVars,
                   compareVars, threshold, grade, is_passed, serviceVars>>

AverageSimilarity ==
    /\ pc = "call"
    /\ ~ReturnsBeforeLoop(recited, reference)
    /\ average_similarity' =
           average_word_similarity(Words(normalize_arabic_text(recited)),
                                   Words(normalize_arabic_text(reference)))
    /\ pc' = "averaged"
    /\ UNCHANGED <<levenshteinVars, position, same_index_similarity,
                   rescued_similarity, normalizeVars, letterVars, compareVars,
                   scoreVars, serviceVars>>

LengthPenalty ==
    /\ pc = "averaged"
    /\ similarity' =
           final_similarity(average_similarity,
                            Len(Words(normalize_arabic_text(recited))),
                            Len(Words(normalize_arabic_text(reference))))
    /\ pc' = "returned"
    /\ UNCHANGED <<levenshteinVars, alignVars, normalizeVars, letterVars,
                   compareVars, threshold, grade, is_passed, serviceVars>>

NextAlign == ReturnEarly \/ AverageSimilarity \/ LengthPenalty

SpecAlign == InitAlign /\ [][NextAlign]_vars

\* One iteration of the loop of compare_quranic_arabic(recited, reference),
\* for the reference position i = position - 1, in two steps: to the
\* same-index similarity (line 294), then through the scan (line 302).
InitRescue ==
    /\ pc = "call"
    /\ recited \in RescueRecitedInputs
    /\ reference \in RescueReferenceInputs
    /\ position \in 1..MaxRescueReference
    /\ average_similarity = Unset
    /\ same_index_similarity = Unset /\ rescued_similarity = Unset
    /\ NormalizeIdle /\ LetterIdle /\ ScoreIdle /\ ServiceIdle
    /\ LevenshteinIdle

SameIndexSimilarity ==
    /\ pc = "call"
    /\ ~ReturnsBeforeLoop(recited, reference)
    /\ position <= Len(Words(normalize_arabic_text(reference)))
    /\ same_index_similarity' =
           position_similarity(Words(normalize_arabic_text(recited)),
                               Words(normalize_arabic_text(reference)), position)
    /\ pc' = "compared"
    /\ UNCHANGED <<levenshteinVars, average_similarity, position,
                   rescued_similarity, normalizeVars, letterVars, compareVars,
                   scoreVars, serviceVars>>

PositionalRescue ==
    /\ pc = "compared"
    /\ rescued_similarity' =
           positional_rescue(same_index_similarity,
                             Words(normalize_arabic_text(recited)),
                             Words(normalize_arabic_text(reference))[position],
                             position)
    /\ pc' = "rescued"
    /\ UNCHANGED <<levenshteinVars, average_similarity, position,
                   same_index_similarity, normalizeVars, letterVars,
                   compareVars, scoreVars, serviceVars>>

NextRescue == SameIndexSimilarity \/ PositionalRescue

SpecRescue == InitRescue /\ [][NextRescue]_vars

\* levenshtein_distance on the pairs of three strings.
InitLevenshtein ==
    /\ pc = "call"
    /\ string_a \in DistanceInputs
    /\ string_b \in DistanceInputs
    /\ string_c \in DistanceInputs
    /\ distances = NoDistances
    /\ NormalizeIdle /\ LetterIdle /\ CompareIdle /\ ScoreIdle /\ ServiceIdle
    /\ AlignIdle

LevenshteinDistance ==
    /\ pc = "call"
    /\ distances' = [ab |-> levenshtein_distance(string_a, string_b),
                     ba |-> levenshtein_distance(string_b, string_a),
                     bc |-> levenshtein_distance(string_b, string_c),
                     ac |-> levenshtein_distance(string_a, string_c)]
    /\ pc' = "returned"
    /\ UNCHANGED <<string_a, string_b, string_c, alignVars, normalizeVars,
                   letterVars, compareVars, scoreVars, serviceVars>>

NextLevenshtein == LevenshteinDistance

SpecLevenshtein == InitLevenshtein /\ [][NextLevenshtein]_vars

-----------------------------------------------------------------------------
(* The service: the lifespan, the grading handler, the health endpoints.    *)

\* "a.wav", "audio/wav", "text/plain", "audio"
FileName == <<97, 46, 119, 97, 118>>
AudioWav == <<97, 117, 100, 105, 111, 47, 119, 97, 118>>
TextPlain == <<116, 101, 120, 116, 47, 112, 108, 97, 105, 110>>
AudioNoSlash == <<97, 117, 100, 105, 111>>

SmallFile == 1024

FormReferences ==
    {<<>>, <<SPACE>>, <<TAB, SPACE>>, <<LATIN_A>>, <<BEH>>,
     <<BEH, ALEF, HAMZA, SPACE, BEH>>}
FileNames == {None, <<>>, FileName}
FileSizes == {SizeNone, 0, SmallFile, MAX_FILE_SIZE, MAX_FILE_SIZE + 1}
ContentTypes == {None, <<>>, AudioWav, TextPlain, AudioNoSlash}
Transcriptions ==
    {None, <<>>, <<BEH>>, <<BEH, ALEF, HAMZA>>, <<BEH, ALEF, HAMZA, SPACE, BEH>>}

\* The requests of the grading endpoint: the form field, the upload as
\* UploadFile reports it, the number of bytes read() returns, and what
\* model.transcribe makes of them.
GradingRequests ==
    {[path |-> "/grade_recitation/", compared_letters |-> c, filename |-> f,
      size |-> z, content_type |-> t, audio_bytes |-> b, transcription |-> x] :
        c \in FormReferences, f \in FileNames, z \in FileSizes,
        t \in ContentTypes, b \in {0, SmallFile}, x \in Transcriptions}

Init ==
    /\ pc = "starting"
    /\ NormalizeIdle /\ LetterIdle /\ CompareIdle /\ ScoreIdle /\ ServiceIdle
    /\ LevenshteinIdle /\ AlignIdle

\* lifespan, lines 72-87: the model is loaded before the first request.
lifespan ==
    /\ pc = "starting"
    /\ response = NoResponse
    /\ model' = "loaded"
    /\ pc' = "serving"
    /\ UNCHANGED <<levenshteinVars, alignVars, normalizeVars, letterVars,
                   compareVars, scoreVars, request, response, invoked,
                   string_a, string_b, string_c, distances>>

\* grade_recitation; pc "starting" is an application served with its
\* lifespan off, the model still None.
grade_recitation ==
    \E req \in GradingRequests :
        /\ response = NoResponse
        /\ req.size \in {SizeNone, req.audio_bytes}
        /\ \E done \in {handle(req, model)} :
               /\ request' = req
               /\ response' = done.response
               /\ invoked' = done.invoked
        /\ UNCHANGED <<levenshteinVars, alignVars, pc, normalizeVars,
                       letterVars, compareVars, scoreVars, model>>

\* root, lines 422-430
root ==
    /\ response = NoResponse
    /\ request' = [NoRequest EXCEPT !.path = "/"]
    /\ response' = [status |-> 200, detail |-> "healthy",
                    model_loaded |-> (model # "None")]
    /\ invoked' = {}
    /\ UNCHANGED <<levenshteinVars, alignVars, pc, normalizeVars, letterVars,
                   compareVars, scoreVars, model>>

\* health_check, lines 432-444
health_check ==
    /\ response = NoResponse
    /\ request' = [NoRequest EXCEPT !.path = "/health"]
    /\ response' = [status |-> 200, detail |-> "healthy",
                    model_status |->
                        IF model # "None" THEN "loaded" ELSE "not_loaded",
                    pass_threshold |-> PASS_THRESHOLD]
    /\ invoked' = {}
    /\ UNCHANGED <<levenshteinVars, alignVars, pc, normalizeVars, letterVars,
                   compareVars, scoreVars, model>>

\* The response is sent; the next request finds nothing of this one.
send_response ==
    /\ response # NoResponse
    /\ request' = NoRequest
    /\ response' = NoResponse
    /\ invoked' = {}
    /\ UNCHANGED <<levenshteinVars, alignVars, pc, normalizeVars, letterVars,
                   compareVars, scoreVars, model>>

Next == lifespan \/ grade_recitation \/ root \/ health_check \/ send_response

Spec == Init /\ [][Next]_vars

-----------------------------------------------------------------------------
(* The claims.                                                              *)

Between0And1(x) == RLeq(Zero, x) /\ RLeq(x, One)
WordCount(t) == Len(Words(normalize_arabic_text(t)))

\* C1: for every pair of inputs compare_quranic_arabic returns, raising
\* nothing (no division by zero), a number s with 0 <= s <= 1.
C1_ReturnsAScoreInUnitInterval ==
    /\ pc # "raised"
    /\ pc \in {"returned", "graded"} => Between0And1(similarity)

\* A recitation of three words against a reference of two, scored strictly
\* between 0 and 1.
C1_Witness ==
    /\ pc = "returned"
    /\ WordCount(recited) = 3 /\ WordCount(reference) = 2
    /\ RLess(Zero, similarity) /\ RLess(similarity, One)

\* C2: a recitation that normalizes to the empty string scores 0.0 against
\* every reference that normalizes to a non-empty string, a single letter
\* included.
C2_EmptyRecitationScoresZero ==
    (/\ pc = "returned"
     /\ normalize_arabic_text(recited) = <<>>
     /\ normalize_arabic_text(reference) # <<>>)
        => similarity = Zero

\* C3: a phrase with a non-empty normalization compared with itself scores
\* exactly 1.0; its grade is 100.0 and it passes at threshold 70.
C3_SelfComparisonIsPerfect ==
    (/\ pc \in {"returned", "graded"}
     /\ recited = reference
     /\ normalize_arabic_text(reference) # <<>>)
        => /\ similarity = One
           /\ pc = "graded" =>
                  grade = <<100, 1>> /\ is_passed /\ threshold = <<70, 1>>

\* A phrase of two words graded against itself.
C3_Witness ==
    /\ pc = "graded"
    /\ recited = reference
    /\ WordCount(reference) = 2
    /\ grade = <<100, 1>> /\ is_passed

\* C4: for every key L of the lexicon and every alternative spelling A
\* listed under L, compare_single_letter(A, L) returns 0.95.
C4_ListedSpellingScores095 ==
    (/\ pc = "returned"
     /\ target_letter \in DOMAIN get_arabic_letter_phonetics
     /\ \E i \in 1..Len(get_arabic_letter_phonetics[target_letter]) :
            get_arabic_letter_phonetics[target_letter][i] = spoken)
        => similarity = <<19, 20>>

\* C5: normalize_arabic_text is idempotent.
C5_NormalizeIsIdempotent ==
    pc = "renormalized" => renormalized = normalized

\* A text the first pass changed into two words, normalized a second time.
C5_Witness ==
    /\ pc = "renormalized"
    /\ normalized # text
    /\ Len(Words(normalized)) = 2
    /\ renormalized = normalized

\* The combining marks of the Arabic block (Unicode category Mn): U+0610-061A,
\* U+064B-065F, U+0670, U+06D6-06DC, U+06DF-06E4, U+06E7, U+06E8, U+06EA-06ED.
ArabicDiacritics ==
    (1552..1562) \cup (1611..1631) \cup {1648} \cup (1750..1756)
        \cup (1759..1764) \cup {1767, 1768} \cup (1770..1773)

NonCanonicalLetters ==
    {ALEF_HAMZA_ABOVE, ALEF_HAMZA_BELOW, ALEF_MADDA, ALEF_WASLA, ALEF_MAKSURA,
     TEH_MARBUTA}

\* What C6 says of a normalized text, the diacritics apart.
WellFormedNormalizedText(n) ==
    /\ \A i \in 1..Len(n) :
           /\ n[i] # TATWEEL
           /\ n[i] \in ArabicBlock \/ n[i] = SPACE
           /\ n[i] \notin NonCanonicalLetters
           /\ (n[i] = SPACE /\ i < Len(n)) => n[i + 1] # SPACE
    /\ n # <<>> => n[1] # SPACE /\ n[Len(n)] # SPACE

\* C6: the output of normalize_arabic_text contains no Arabic diacritic, no
\* tatweel, nothing outside the Arabic block but single spaces, no leading,
\* trailing or consecutive space, and no non-canonical letter variant.
C6_NormalizedTextIsCanonical ==
    pc = "normalized" =>
        /\ WellFormedNormalizedText(normalized)
        /\ \A i \in 1..Len(normalized) : normalized[i] \notin ArabicDiacritics

\* C7: a reference that normalizes to the empty string scores 0.0, whatever
\* the recited text, and nothing is raised.
C7_EmptyReferenceScoresZero ==
    /\ pc # "raised"
    /\ (pc = "returned" /\ normalize_arabic_text(reference) = <<>>)
           => similarity = Zero

\* A non-empty recitation against a reference that normalizes to nothing.
C7_Witness ==
    /\ pc = "returned"
    /\ reference # <<>> /\ normalize_arabic_text(reference) = <<>>
    /\ WordCount(recited) = 2
    /\ similarity = Zero

\* C8: for a target whose normalization is no key of the lexicon,
\* compare_single_letter returns 1.0 when the two normalizations are equal
\* and 0.0 otherwise.
C8_UnknownTargetScoresZero ==
    (/\ pc = "returned"
     /\ normalize_arabic_text(target_letter) \notin DOMAIN get_arabic_letter_phonetics)
        => similarity = IF normalize_arabic_text(spoken)
                              = normalize_arabic_text(target_letter)
                         THEN One ELSE Zero

\* A spoken text that contains the unknown target letter and is not it.
C8_Witness ==
    /\ pc = "returned"
    /\ target_letter = <<HAMZA>>
    /\ spoken = <<BEH, HAMZA>>
    /\ similarity = Zero

AllWhitespace(t) == \A i \in 1..Len(t) : t[i] \in Whitespace

IsAudioType(t) ==
    /\ t # None
    /\ Len(t) >= Len(AudioPrefix)
    /\ \A i \in 1..Len(AudioPrefix) : t[i] = AudioPrefix[i]

\* The requests C9 says are rejected.
Rejectable(req) ==
    \/ AllWhitespace(req.compared_letters)
    \/ req.filename \in {None, <<>>}
    \/ req.size > MAX_FILE_SIZE
    \/ ~IsAudioType(req.content_type)

C10_GradeAndVerdict ==
    pc = "graded" =>
        /\ grade[2] \in {1, 2, 4, 5, 10, 20, 25, 50, 100}
        /\ Abs(grade[1] * similarity[2] - 100 * similarity[1] * grade[2])
               <= (similarity[2] * grade[2]) \div 200
        /\ RLeq(Zero, grade) /\ RLeq(grade, <<100, 1>>)
        /\ is_passed <=> RLeq(threshold, grade)

\* A similarity below the threshold whose rounded grade reaches it.
C10_Witness ==
    /\ pc = "graded"
    /\ threshold = PASS_THRESHOLD
    /\ RLess(RMul(similarity, <<100, 1>>), threshold)
    /\ RLess(RAdd(RMul(similarity, <<100, 1>>), <<1, 200>>), <<7001, 100>>)
    /\ RLess(<<69996, 1000>>, RMul(similarity, <<100, 1>>))
    /\ grade = <<70, 1>>
    /\ is_passed

\* C11: levenshtein_distance is symmetric and satisfies the triangle
\* inequality: for all strings a, b, c, distance(a, b) = distance(b, a) and
\* distance(a, c) <= distance(a, b) + distance(b, c).
C11_DistanceIsSymmetricAndTriangular ==
    distances # NoDistances =>
        /\ distances.ab = distances.ba
        /\ distances.ac <= distances.ab + distances.bc

\* Three strings of growing lengths (a = "ب", b = "با", c = "باب" for one),
\* every distance positive and the triangle inequality tight.
C11_Witness ==
    /\ distances # NoDistances
    /\ 0 < Len(string_a)
    /\ Len(string_a) < Len(string_b) /\ Len(string_b) < Len(string_c)
    /\ distances.ab > 0 /\ distances.bc > 0
    /\ distances.ac = distances.ab + distances.bc

\* C12: in compare_quranic_arabic with non-empty token sequences the result
\* is the average per-position similarity times 0.9 exactly when the ratio
\* of the token counts is strictly below 0.8 or strictly above 1.2
\* (5 * |recited| < 4 * |reference| or 5 * |recited| > 6 * |reference|) and
\* the unpenalized average otherwise, the ratios 0.8 and 1.2 themselves being
\* unpenalized; the result is the one compare_quranic_arabic returns.
C12_PenaltyOutsideTheRatioRange ==
    pc = "returned" /\ average_similarity # Unset =>
        LET n_recited == WordCount(recited)
            n_reference == WordCount(reference)
            outside == 5 * n_recited < 4 * n_reference
                          \/ 5 * n_recited > 6 * n_reference
            penalized == RMul(average_similarity, <<9, 10>>)
        IN  /\ n_recited > 0 /\ n_reference > 0
            /\ similarity = compare_quranic_arabic(recited, reference)
            /\ outside => similarity = penalized
            /\ ~outside => similarity = average_similarity
            /\ average_similarity # Zero => (similarity = penalized <=> outside)

\* Four recited tokens against five reference tokens, the ratio 0.8 itself:
\* a positive average below 1, returned unpenalized.
C12_Witness ==
    /\ pc = "returned" /\ average_similarity # Unset
    /\ WordCount(recited) = 4 /\ WordCount(reference) = 5
    /\ RLess(Zero, average_similarity) /\ RLess(average_similarity, One)
    /\ similarity = average_similarity

\* The recited words and the reference word of the iteration.
RecitedWords == Words(normalize_arabic_text(recited))
ReferenceWord == Words(normalize_arabic_text(reference))[position]

\* The other recited tokens j whose wordSimilarity to the reference word
\* exceeds x.
BetterElsewhere(x) ==
    {j \in 1..Len(RecitedWords) :
        j # position /\ RLess(x, compare_words(RecitedWords[j], ReferenceWord))}

\* C13: positional rescue: for every reference position i with same-index
\* similarity s, the position contributes exactly s if s >= 0.6; it
\* contributes s if s < 0.6 and no other recited token j # i has
\* wordSimilarity(recited[j], reference[i]) > s; and if s < 0.6 and some such
\* token exists it contributes 0.8 * wordSimilarity(recited[j], reference[i])
\* for a token j # i whose wordSimilarity exceeds s.
C13_RescueContribution ==
    pc = "rescued" =>
        IF RLeq(<<3, 5>>, same_index_similarity)
        THEN rescued_similarity = same_index_similarity
        ELSE IF BetterElsewhere(same_index_similarity) = {}
             THEN rescued_similarity = same_index_similarity
             ELSE \E j \in BetterElsewhere(same_index_similarity) :
                      rescued_similarity =
                          RMul(compare_words(RecitedWords[j], ReferenceWord),
                               <<4, 5>>)

\* C14: positional rescue never lowers a score: for every reference position
\* i the similarity of position i after the scan of the other recited tokens
\* is greater than or equal to the same-index similarity computed before the
\* scan, whatever the number and order of the recited tokens.
C14_RescueNeverLowers ==
    pc = "rescued" => RLeq(same_index_similarity, rescued_similarity)

\* The maximum of line 215 for the call compare_single_letter made.
CallMaxSimilarity ==
    MaxSimilarity(call_args.spoken, call_args.alternatives, 1, Zero)

\* C15: the short-utterance leniency branch is never taken from
\* compare_single_letter: whenever compare_single_letter reaches
\* calculate_phonetic_similarity, the target passed to it is not a substring
\* of the spoken text passed to it, so the result is 0.8 times the maximum
\* compare_words value over the normalized alternatives and never the fixed
\* 0.6 of the leniency branch.
C15_LeniencyNeverTaken ==
    pc = "returned" /\ call_args # NoCall =>
        /\ ~IsSubstring(call_args.target, call_args.spoken)
        /\ similarity = RMul(CallMaxSimilarity, <<4, 5>>)
        /\ similarity = calculate_phonetic_similarity(
                            call_args.spoken, call_args.target,
                            call_args.alternatives)

\* The call made with a spoken text of one to three characters and a maximum
\* below 0.3, the other two conditions of the leniency branch: the result is
\* 0.8 times the maximum.
C15_Witness ==
    /\ pc = "returned" /\ call_args # NoCall
    /\ Len(call_args.spoken) \in 1..3
    /\ RLess(CallMaxSimilarity, <<3, 10>>)
    /\ similarity = RMul(CallMaxSimilarity, <<4, 5>>)

====
